---- MODULE Spec2Model ----
(***************************************************************************)
(* GTP session layer of src/gtp_wrapper/engine.py (class GTPEngine):       *)
(* caller threads that send commands and iterate lazy responses, the       *)
(* background __read_stdout thread, and the child engine process at the    *)
(* other end of the two pipes.                                             *)
(*                                                                         *)
(* Text is modelled as a sequence of tokens.  A token is one of the        *)
(* characters the code inspects ("=", "?", "#", " ") or a word that        *)
(* contains none of them ("name", "2", ...), so split("#"), strip(),       *)
(* line[0], line[1:] and startswith() act on tokens exactly as they act    *)
(* on characters.                                                          *)
(***************************************************************************)
EXTENDS Integers, Sequences, FiniteSets, TLC

\* ------------------------------------------------------------------ bounds
MaxSends == 2      \* command lines written to the child's stdin
MaxBody == 1       \* body lines the child emits after a status line
MaxStops == 1      \* commands stop_persistent is called for

Callers == {"t1", "t2"}                    \* the caller threads
Main == "t1"                               \* the one that stops and quits

\* Raw arguments of send_command.
Messages ==
  { <<" ", "name", "#", "x">>, <<"lz-analyze">>, <<" ", "#", "name">> }

QuitText == <<"quit">>

\* Lines the child may print as the first line of a response: well formed
\* (status marker "=" or "?"), malformed (no marker) and blank.
FirstLines ==
  { <<"=">>, <<"=", "2">>, <<"?", " ", "unacceptable size">>, <<"2">>, <<>> }

\* Lines the child may print after the first line of a response.
BodyLines == { <<"=", "info", " ">> }

\* ------------------------------------------------------- text operations
RECURSIVE lstrip(_)
lstrip(s) == IF s # <<>> /\ Head(s) = " " THEN lstrip(Tail(s)) ELSE s

RECURSIVE rstrip(_)
rstrip(s) ==
  IF s # <<>> /\ s[Len(s)] = " " THEN rstrip(SubSeq(s, 1, Len(s) - 1)) ELSE s

\* str.strip()
strip(s) == rstrip(lstrip(s))

\* message.split("#")[0]
RECURSIVE split_hash(_)
split_hash(s) ==
  IF s = <<>> \/ Head(s) = "#" THEN <<>>
  ELSE <<Head(s)>> \o split_hash(Tail(s))

\* mutant: the comment is not removed
clean_message_nocomment(message) == strip(message)

\* __send, lines 83-84: message.split("#")[0].strip()
clean_message(message) == strip(split_hash(message))

\* ------------------------------------------------------------------ state
VARIABLES
  pc,             \* caller thread -> position in the method it runs
  op,             \* caller thread -> public method it runs
  arg,            \* caller thread -> local variable message of __send
  ret,            \* caller thread -> local variable ret of __send
  cur,            \* caller thread -> index in commands of its local cmd
  err,            \* caller thread -> exception its last call raised
  sid,            \* history: caller thread -> number of its last write
  broken,         \* history: caller thread -> its call began after the
                  \*   reader had ended with an exception
  engine,         \* self.engine: "Popen" or "None"
  lock,           \* self.lock: "free" or "reader"
  commands,       \* self.commands: the __Command objects, in append order
  command_queue,  \* self.command_queue: indices into commands, FIFO
  gen,            \* per command: the generator send_command returned
  rpc,            \* __read_stdout thread: position
  active,         \* __read_stdout: active_command (index), 0 before any
  line,           \* __read_stdout: local variable line
  rerr,           \* exception that ended the __read_stdout thread
  nproc,          \* history: child lines the reader has processed
  stdin,          \* pipe to the child: lines written and not yet read
  out,            \* history of the lines the child printed on stdout
  rd,             \* number of lines of out consumed by readline()
  childState,     \* child process: idle / first / body / exiting / dead
  childCur,       \* child process: the line it is answering
  nbody,          \* child process: body lines printed in this response
  nsent,          \* history: command lines written so far
  stopped,        \* history: commands stop_persistent was called for
  stage,          \* conversions of board.py / katago.py: what was applied
  pin,            \* conversions: the argument
  ptext,          \* conversions: the text form
  pout            \* conversions: the value read back from the text

vars ==
  <<pc, op, arg, ret, cur, err, sid, broken, engine, lock, commands,
    command_queue, gen, rpc, active, line, rerr, nproc, stdin, out, rd,
    childState, childCur, nbody, nsent, stopped, stage, pin, ptext, pout>>

callerVars == <<pc, op, arg, ret, cur, err, sid, broken>>
pureVars == <<stage, pin, ptext, pout>>
readerVars == <<rpc, active, line, rerr, nproc, rd>>
childVars == <<childState, childCur, nbody, out>>

\* GTPEngine.__Command.__init__; sid and owner are history fields: the
\* number of the write that carried the command line, and the caller.
NewCommand(message, n, t) ==
  [command |-> message, response |-> <<>>, ready |-> FALSE, error |-> FALSE,
   finished |-> FALSE, lock |-> "free", sid |-> n, owner |-> t]

NoGen == [st |-> "none", i |-> 0, seen |-> <<>>, ok |-> FALSE]

NoLine == [id |-> 0, text |-> <<>>]

\* The session after GTPEngine.__init__.
EngineInit ==
  /\ pc = [t \in Callers |-> "idle"]
  /\ op = [t \in Callers |-> "none"]
  /\ arg = [t \in Callers |-> <<>>]
  /\ ret = [t \in Callers |-> "none"]
  /\ cur = [t \in Callers |-> 0]
  /\ err = [t \in Callers |-> "none"]
  /\ sid = [t \in Callers |-> 0]
  /\ broken = [t \in Callers |-> FALSE]
  /\ engine = "Popen"
  /\ lock = "free"
  /\ commands = <<>>
  /\ command_queue = <<>>
  /\ gen = <<>>
  /\ rpc = "poll"
  /\ active = 0
  /\ line = <<>>
  /\ rerr = "none"
  /\ nproc = 0
  /\ stdin = <<>>
  /\ out = <<>>
  /\ rd = 0
  /\ childState = "idle"
  /\ childCur = NoLine
  /\ nbody = 0
  /\ nsent = 0
  /\ stopped = {}

\* No conversion of board.py or katago.py is in progress.
NoConversion ==
  /\ stage = "none"
  /\ pin = <<>>
  /\ ptext = <<>>
  /\ pout = <<>>

Init == EngineInit /\ NoConversion

\* An analysis command such as lz-analyze or kata-analyze: the engine keeps
\* printing lines until it is interrupted.
IsStreaming(text) == text # <<>> /\ Head(text) = "lz-analyze"

\* ---------------------------------------------------------- caller threads
\* mutant: the write is taken to succeed whatever became of the engine
write_outcome_ok(eng, child) == "none"

\* Outcome of self.engine.stdin.write(...) and flush(): self.engine is None
\* after quit(), and a pipe whose reader has exited refuses the flush.
write_outcome(eng, child) ==
  IF eng = "None" THEN "AttributeError"
  ELSE IF child = "dead" THEN "BrokenPipeError"
  ELSE "none"

\* Calls that are about to write a command line (bounds the model).
Writing == {u \in Callers : pc[u] = "send" /\ clean_message(arg[u]) # <<>>}

MayCall(m) ==
  (clean_message(m) # <<>> /\ write_outcome(engine, childState) = "none")
    => nsent + Cardinality(Writing) < MaxSends

\* A caller enters send_command(command).
SendCall(t, m) ==
  /\ pc[t] = "idle"
  /\ MayCall(m)
  /\ pc' = [pc EXCEPT ![t] = "send"]
  /\ op' = [op EXCEPT ![t] = "send_command"]
  /\ arg' = [arg EXCEPT ![t] = m]
  /\ err' = [err EXCEPT ![t] = "none"]
  /\ broken' = [broken EXCEPT ![t] = (rerr # "none")]
  /\ ret' = [ret EXCEPT ![t] = "none"]
  /\ UNCHANGED <<cur, sid, engine, lock, commands, command_queue, gen,
                 readerVars, stdin, childVars, nsent, stopped, pureVars>>

\* A caller enters quit(), whose first statement is send_command("quit").
QuitCall(t) ==
  /\ t = Main
  /\ pc[t] = "idle"
  /\ MayCall(QuitText)
  /\ pc' = [pc EXCEPT ![t] = "send"]
  /\ op' = [op EXCEPT ![t] = "quit"]
  /\ arg' = [arg EXCEPT ![t] = QuitText]
  /\ err' = [err EXCEPT ![t] = "none"]
  /\ broken' = [broken EXCEPT ![t] = (rerr # "none")]
  /\ ret' = [ret EXCEPT ![t] = "none"]
  /\ UNCHANGED <<cur, sid, engine, lock, commands, command_queue, gen,
                 readerVars, stdin, childVars, nsent, stopped, pureVars>>

\* mutant: the value write() returned is not looked at
write_check_ignored(r) == "none"

\* __send, lines 89-90: if ret != len(message_line): raise RuntimeError
write_check(r) == IF r = "short" THEN "RuntimeError" ELSE "none"

\* __send up to the flush: clean the message, reject an empty one, write
\* the line to the child, compare what write() returned (r: "full" or
\* "short") with the length of the line, flush.  No lock is held.  The line
\* reaches the child with the flush.
Write(t, r) ==
  /\ pc[t] = "send"
  /\ LET message == clean_message(arg[t])
         w == write_outcome(engine, childState)
         o == IF message = <<>> THEN "ValueError"
              ELSE IF w = "AttributeError" THEN w
              ELSE IF write_check(r) # "none" THEN write_check(r)
              ELSE w
     IN /\ ret' = [ret EXCEPT ![t] =
                     IF message = <<>> \/ w = "AttributeError"
                     THEN "none" ELSE r]
        /\ IF o # "none"
           THEN /\ pc' = [pc EXCEPT ![t] = "idle"]
                /\ op' = [op EXCEPT ![t] = "none"]
                /\ arg' = [arg EXCEPT ![t] = <<>>]
                /\ err' = [err EXCEPT ![t] = o]
                /\ UNCHANGED <<sid, stdin, nsent>>
           ELSE /\ nsent < MaxSends
                /\ stdin' =
                     Append(stdin, [id |-> nsent + 1, text |-> message])
                /\ nsent' = nsent + 1
                /\ sid' = [sid EXCEPT ![t] = nsent + 1]
                /\ arg' = [arg EXCEPT ![t] = message]
                /\ pc' = [pc EXCEPT ![t] = "enq"]
                /\ UNCHANGED <<op, err>>
  /\ broken' = [broken EXCEPT ![t] = FALSE]
  /\ UNCHANGED <<cur, engine, lock, commands, command_queue, gen,
                 readerVars, childVars, stopped, pureVars>>

\* The write as the buffered stream of subprocess.Popen performs it: the
\* whole line is taken.
SendWrite(t) == Write(t, "full")

\* The write on a stream that takes only part of the line.
SendWriteShort(t) == Write(t, "short")

\* __send, the "with self.lock" block: create the command and enqueue it.
SendEnqueue(t) ==
  /\ pc[t] = "enq"
  /\ lock = "free"
  /\ commands' = Append(commands, NewCommand(arg[t], sid[t], t))
  /\ command_queue' = Append(command_queue, Len(commands) + 1)
  /\ gen' = Append(gen, NoGen)
  /\ cur' = [cur EXCEPT ![t] = Len(commands) + 1]
  /\ arg' = [arg EXCEPT ![t] = <<>>]
  /\ sid' = [sid EXCEPT ![t] = 0]
  /\ ret' = [ret EXCEPT ![t] = "none"]
  /\ pc' = [pc EXCEPT ![t] = "wait_ready"]
  /\ UNCHANGED <<op, err, broken, engine, lock, readerVars, stdin,
                 childVars, nsent, stopped, pureVars>>

\* mutant: the wait returns without looking at command.ready
wait_ready_exit_any(cmd) == TRUE

\* __wait_ready: the condition that leaves the polling loop.
wait_ready_exit(cmd) == cmd.ready

\* send_command: ok = not cmd.error
status_ok(cmd) == ~cmd.error

\* __wait_ready sees command.ready under self.lock; send_command then
\* returns (ok, generator).  quit() drops the pair and moves on to wait().
WaitReady(t) ==
  /\ pc[t] = "wait_ready"
  /\ lock = "free"
  /\ wait_ready_exit(commands[cur[t]])
  /\ gen' = [gen EXCEPT ![cur[t]] =
               [st |-> IF op[t] = "quit" THEN "dropped" ELSE "fresh",
                i |-> 0, seen |-> <<>>, ok |-> status_ok(commands[cur[t]])]]
  /\ pc' = [pc EXCEPT ![t] = IF op[t] = "quit" THEN "q_wait" ELSE "idle"]
  /\ op' = [op EXCEPT ![t] = IF op[t] = "quit" THEN "quit" ELSE "none"]
  /\ cur' = [cur EXCEPT ![t] = 0]
  /\ UNCHANGED <<arg, ret, err, sid, broken, engine, lock, commands,
                 command_queue, readerVars, stdin, childVars, nsent, stopped,
                 pureVars>>

\* quit: self.engine.wait()
QuitWait(t) ==
  /\ pc[t] = "q_wait"
  /\ childState = "dead"
  /\ pc' = [pc EXCEPT ![t] = "q_join"]
  /\ UNCHANGED <<op, arg, ret, cur, err, sid, broken, engine, lock, commands,
                 command_queue, gen, readerVars, stdin, childVars, nsent,
                 stopped, pureVars>>

\* quit: self.__read_stdout_thread.join(); self.engine = None
QuitJoin(t) ==
  /\ pc[t] = "q_join"
  /\ rpc \in {"done", "crashed"}
  /\ engine' = "None"
  /\ pc' = [pc EXCEPT ![t] = "idle"]
  /\ op' = [op EXCEPT ![t] = "none"]
  /\ UNCHANGED <<arg, ret, cur, err, sid, broken, lock, commands,
                 command_queue, gen, readerVars, stdin, childVars, nsent,
                 stopped, pureVars>>

\* mutant: the blank line stays in the writer's buffer
stop_line_unflushed(o) == <<>>

\* mutant: the empty line is written twice
stop_line_twice(o) == IF o = "none" THEN <<NoLine, NoLine>> ELSE <<>>

\* stop_persistent: the lines that reach the child
stop_line(o) == IF o = "none" THEN <<NoLine>> ELSE <<>>

\* The persistent commands whose unfinished response caller t holds.
Held(t) ==
  {c \in DOMAIN commands :
     /\ commands[c].owner = t
     /\ IsStreaming(commands[c].command)
     /\ gen[c].st \in {"fresh", "yielded"}}

\* stop_persistent: write an empty line to the child; no lock, no command.
\* It is called, as documented, by a caller that holds the unfinished
\* response of a command with persistent output.
StopPersistent(t) ==
  /\ t = Main
  /\ pc[t] = "idle"
  /\ Held(t) # {}
  /\ ~(Held(t) \subseteq stopped)
  /\ Cardinality(stopped) < MaxStops
  /\ stopped' = stopped \cup Held(t)
  /\ LET o == write_outcome(engine, childState)
     IN /\ stdin' = stdin \o stop_line(o)
        /\ err' = [err EXCEPT ![t] = o]
  /\ UNCHANGED <<pc, op, arg, ret, cur, sid, broken, engine, lock, commands,
                 command_queue, gen, readerVars, childVars, nsent, pureVars>>
\* A caller resumes the generator of one of its commands: next(res).  A
\* generator suspended at its yield still holds cmd.lock; resuming runs
\* "i += 1", leaves the with block and starts the next round of the loop.
CallNext(t, c) ==
  /\ pc[t] = "idle"
  /\ c \in DOMAIN commands
  /\ commands[c].owner = t
  /\ gen[c].st \in {"fresh", "yielded"}
  /\ pc' = [pc EXCEPT ![t] = "next"]
  /\ op' = [op EXCEPT ![t] = "next"]
  /\ cur' = [cur EXCEPT ![t] = c]
  /\ err' = [err EXCEPT ![t] = "none"]
  /\ IF gen[c].st = "yielded"
     THEN /\ gen' = [gen EXCEPT ![c].st = "running", ![c].i = @ + 1]
          /\ commands' = [commands EXCEPT ![c].lock = "free"]
     ELSE /\ gen' = [gen EXCEPT ![c].st = "running"]
          /\ UNCHANGED commands
  /\ UNCHANGED <<arg, ret, sid, broken, engine, lock, command_queue, readerVars,
                 stdin, childVars, nsent, stopped, pureVars>>

\* mutant: the generator stops as soon as it sees cmd.finished
generate_response_eager(g, cmd) ==
  IF cmd.finished THEN "break"
  ELSE IF g.i < Len(cmd.response) THEN "yield"
  ELSE "sleep"

\* __generate_response: one round of the loop, under cmd.lock
generate_response(g, cmd) ==
  IF g.i < Len(cmd.response) THEN "yield"
  ELSE IF cmd.finished THEN "break"
  ELSE "sleep"

\* One round of the generator that ends the next() call: it takes
\* cmd.lock and yields response[i] (keeping the lock while suspended) or
\* breaks.  A round that finds nothing sleeps and changes no state.
GenStep(t) ==
  /\ pc[t] = "next"
  /\ LET c == cur[t]
         todo == generate_response(gen[c], commands[c])
     IN /\ commands[c].lock = "free"
        /\ todo # "sleep"
        /\ IF todo = "yield"
           THEN /\ gen' = [gen EXCEPT
                             ![c].st = "yielded",
                             ![c].seen =
                               Append(@, commands[c].response[gen[c].i + 1])]
                /\ commands' = [commands EXCEPT ![c].lock = "gen"]
           ELSE /\ gen' = [gen EXCEPT ![c].st = "done"]
                /\ UNCHANGED commands
  /\ pc' = [pc EXCEPT ![t] = "idle"]
  /\ op' = [op EXCEPT ![t] = "none"]
  /\ cur' = [cur EXCEPT ![t] = 0]
  /\ UNCHANGED <<arg, ret, err, sid, broken, engine, lock, command_queue,
                 readerVars, stdin, childVars, nsent, stopped, pureVars>>

\* ------------------------------------------------ the __read_stdout thread
\* while self.engine.poll() is None
ReaderPoll ==
  /\ rpc = "poll"
  /\ rpc' = IF childState # "dead" THEN "get" ELSE "done"
  /\ UNCHANGED <<callerVars, engine, lock, commands, command_queue, gen,
                 active, line, rerr, nproc, rd, stdin, childVars, nsent,
                 stopped, pureVars>>

\* mutant: the newest command is taken
queue_get_last(q) == [item |-> q[Len(q)], rest |-> SubSeq(q, 1, Len(q) - 1)]

\* Queue.get(): the oldest item
queue_get(q) == [item |-> Head(q), rest |-> Tail(q)]

\* active_command = self.command_queue.get(), blocking on an empty queue
ReaderGet ==
  /\ rpc = "get"
  /\ command_queue # <<>>
  /\ active' = queue_get(command_queue).item
  /\ command_queue' = queue_get(command_queue).rest
  /\ rpc' = "read"
  /\ UNCHANGED <<callerVars, engine, lock, commands, gen, line, rerr, nproc,
                 rd, stdin, childVars, nsent, stopped, pureVars>>

\* line = self.engine.stdout.readline().decode().strip(); at end of stream
\* (the child has exited and everything was read) readline returns b"".
\* readline touches nothing but the reader's own state, so the step also
\* takes self.lock, the first of the two locks of "with self.lock,
\* active_command.lock".
ReaderRead ==
  /\ rpc = "read"
  /\ lock = "free"
  /\ lock' = "reader"
  /\ \/ /\ rd < Len(out)
        /\ line' = strip(out[rd + 1].line)
        /\ rd' = rd + 1
     \/ /\ rd = Len(out)
        /\ childState = "dead"
        /\ line' = <<>>
        /\ rd' = rd
  /\ rpc' = "lock2"
  /\ UNCHANGED <<callerVars, engine, commands, command_queue, gen, active,
                 rerr, nproc, stdin, childVars, nsent, stopped, pureVars>>

\* The exception the body of the with block raises for this line, if any:
\* line[0] of an empty line is an IndexError, a first line without a status
\* marker is the RuntimeError of line 55.
line_raises(cmd, l) ==
  IF cmd.ready THEN "none"
  ELSE IF l = <<>> THEN "IndexError"
  ELSE IF Head(l) # "=" /\ Head(l) # "?" THEN "RuntimeError"
  ELSE "none"

\* mutant: the failure marker is not recorded
process_line_noerror(cmd, l) ==
  LET c1 == IF ~cmd.ready THEN [cmd EXCEPT !.ready = TRUE] ELSE cmd
      l1 == IF ~cmd.ready THEN Tail(l) ELSE l
  IN IF l = <<>> THEN [c1 EXCEPT !.finished = TRUE]
     ELSE [c1 EXCEPT !.response = Append(@, strip(l1))]

\* mutant: the status is taken again from every line
process_line_restatus(cmd, l) ==
  LET c1 == IF l # <<>>
            THEN [cmd EXCEPT !.error = (Head(l) = "?"), !.ready = TRUE]
            ELSE cmd
      l1 == IF ~cmd.ready THEN Tail(l) ELSE l
  IN IF l = <<>> THEN [c1 EXCEPT !.finished = TRUE]
     ELSE [c1 EXCEPT !.response = Append(@, strip(l1))]
\* mutant: the status marker is looked for, and removed, on every line
process_line_every_marker(cmd, l) ==
  LET marked == l # <<>> /\ Head(l) \in {"=", "?"}
      c1 == IF ~cmd.ready
            THEN [cmd EXCEPT !.error = (Head(l) = "?"), !.ready = TRUE]
            ELSE cmd
      l1 == IF marked THEN Tail(l) ELSE l
  IN IF l = <<>> THEN [c1 EXCEPT !.finished = TRUE]
     ELSE [c1 EXCEPT !.response = Append(@, strip(l1))]

\* The body of the with block for a line that raises nothing (lines 51-64).
\* empty_line is computed before the status marker is removed.
process_line(cmd, l) ==
  LET empty_line == l = <<>>
      c1 == IF ~cmd.ready
            THEN [cmd EXCEPT !.error = (Head(l) = "?"), !.ready = TRUE]
            ELSE cmd
      l1 == IF ~cmd.ready THEN Tail(l) ELSE l
  IN IF empty_line THEN [c1 EXCEPT !.finished = TRUE]
     ELSE [c1 EXCEPT !.response = Append(@, strip(l1))]

\* mutant: the inner loop is left after every line
next_position_break(l) == "poll"

\* lines 60-64: the empty line breaks out of the inner loop, back to the
\* poll of the outer one; any other line goes on to the next readline.
next_position(l) == IF l = <<>> THEN "poll" ELSE "read"

\* The reader takes active_command.lock, runs the body of the with block and
\* releases both locks.  An exception ends the thread.
ReaderProcess ==
  /\ rpc = "lock2"
  /\ commands[active].lock = "free"
  /\ lock' = "free"
  /\ line' = <<>>
  /\ IF line_raises(commands[active], line) # "none"
     THEN /\ rerr' = line_raises(commands[active], line)
          /\ rpc' = "crashed"
          /\ UNCHANGED <<commands, nproc>>
     ELSE /\ commands' = [commands EXCEPT ![active] = process_line(@, line)]
          /\ rpc' = next_position(line)
          /\ nproc' = rd
          /\ UNCHANGED rerr
  /\ UNCHANGED <<callerVars, engine, command_queue, gen, active, rd, stdin,
                 childVars, nsent, stopped, pureVars>>

\* --------------------------------------------------------- the child process
\* The engine answers the lines of its stdin in order: a first line, body
\* lines, an empty line.  An analysis command ("lz-analyze") keeps printing
\* until any input arrives; "quit" is answered and then the process exits.
ChildDone(text) == IF text = QuitText THEN "exiting" ELSE "idle"

\* The idle child reads an empty line and ignores it.
ChildSkip ==
  /\ childState = "idle"
  /\ stdin # <<>>
  /\ Head(stdin).text = <<>>
  /\ stdin' = Tail(stdin)
  /\ UNCHANGED <<callerVars, engine, lock, commands, command_queue, gen,
                 readerVars, childVars, nsent, stopped, pureVars>>

\* The idle child reads a command line and prints the first line of its
\* response; a blank first line is a response that is already over.
ChildFirst ==
  /\ childState = "idle"
  /\ stdin # <<>>
  /\ Head(stdin).text # <<>>
  /\ stdin' = Tail(stdin)
  /\ nbody' = 0
  /\ \E l \in FirstLines :
       /\ out' = Append(out, [line |-> l, src |-> Head(stdin).id])
       /\ IF strip(l) = <<>>
          THEN /\ childState' = ChildDone(Head(stdin).text)
               /\ childCur' = NoLine
          ELSE /\ childState' = "body"
               /\ childCur' = Head(stdin)
  /\ UNCHANGED <<callerVars, engine, lock, commands, command_queue, gen,
                 readerVars, nsent, stopped, pureVars>>

ChildBody ==
  /\ childState = "body"
  /\ nbody < MaxBody
  /\ \E l \in BodyLines :
       out' = Append(out, [line |-> l, src |-> childCur.id])
  /\ nbody' = nbody + 1
  /\ UNCHANGED <<callerVars, engine, lock, commands, command_queue, gen,
                 readerVars, stdin, childState, childCur, nsent, stopped,
                 pureVars>>

ChildEnd ==
  /\ childState = "body"
  /\ IsStreaming(childCur.text) => stdin # <<>>
  /\ out' = Append(out, [line |-> <<>>, src |-> childCur.id])
  /\ stdin' = IF IsStreaming(childCur.text) /\ Head(stdin).text = <<>>
              THEN Tail(stdin) ELSE stdin
  /\ childState' = ChildDone(childCur.text)
  /\ childCur' = NoLine
  /\ nbody' = 0
  /\ UNCHANGED <<callerVars, engine, lock, commands, command_queue, gen,
                 readerVars, nsent, stopped, pureVars>>

ChildExit ==
  /\ childState = "exiting"
  /\ childState' = "dead"
  /\ UNCHANGED <<callerVars, engine, lock, commands, command_queue, gen,
                 readerVars, stdin, out, childCur, nbody, nsent, stopped,
                 pureVars>>

\* ------------------------------------------------------------ specification
Next ==
  \/ \E t \in Callers : \E m \in Messages : SendCall(t, m)
  \/ \E t \in Callers : QuitCall(t)
  \/ \E t \in Callers : SendWrite(t)
  \/ \E t \in Callers : SendEnqueue(t)
  \/ \E t \in Callers : WaitReady(t)
  \/ \E t \in Callers : QuitWait(t)
  \/ \E t \in Callers : QuitJoin(t)
  \/ \E t \in Callers : StopPersistent(t)
  \/ \E t \in Callers : \E c \in 1..MaxSends : CallNext(t, c)
  \/ \E t \in Callers : GenStep(t)
  \/ ReaderPoll
  \/ ReaderGet
  \/ ReaderRead
  \/ ReaderProcess
  \/ ChildSkip
  \/ ChildFirst
  \/ ChildBody
  \/ ChildEnd
  \/ ChildExit

Spec == Init /\ [][Next]_vars

\* The session on a stream whose write() may take only part of a line.
WriteNext ==
  \/ Next
  \/ \E t \in Callers : SendWriteShort(t)

WriteSpec == Init /\ [][WriteNext]_vars
\* The use shown at the end of src/engine.py: one thread sends a command,
\* iterates its response, may call stop_persistent while it does, and starts
\* no other command before the response is exhausted.  Threads, the reader
\* and the child are scheduled fairly; sending, stopping and the number of
\* lines the child prints stay free choices.
Exhausted(t) ==
  \A c \in DOMAIN commands : commands[c].owner = t => gen[c].st = "done"

StreamSend(m) == Exhausted(Main) /\ SendCall(Main, m)

StreamNext ==
  \/ \E m \in Messages : StreamSend(m)
  \/ SendWrite(Main)
  \/ SendEnqueue(Main)
  \/ WaitReady(Main)
  \/ StopPersistent(Main)
  \/ \E c \in 1..MaxSends : CallNext(Main, c)
  \/ GenStep(Main)
  \/ ReaderPoll
  \/ ReaderGet
  \/ ReaderRead
  \/ ReaderProcess
  \/ ChildFirst
  \/ ChildBody
  \/ ChildEnd

StreamFairness ==
  /\ WF_vars(SendWrite(Main))
  /\ WF_vars(SendEnqueue(Main))
  /\ WF_vars(WaitReady(Main))
  /\ \A c \in 1..MaxSends : WF_vars(CallNext(Main, c))
  /\ WF_vars(GenStep(Main))
  /\ WF_vars(ReaderPoll)
  /\ WF_vars(ReaderGet)
  /\ WF_vars(ReaderRead)
  /\ WF_vars(ReaderProcess)
  /\ WF_vars(ChildFirst)
  /\ WF_vars(ChildEnd)

StreamSpec == Init /\ [][StreamNext]_vars /\ StreamFairness
\* ------------------------------------- the same program in smaller steps
\* send_command, line 123: __wait_ready sees command.ready under self.lock.
WaitReadyLocked(t) ==
  /\ pc[t] = "wait_ready"
  /\ lock = "free"
  /\ wait_ready_exit(commands[cur[t]])
  /\ pc' = [pc EXCEPT ![t] = "status"]
  /\ UNCHANGED <<op, arg, ret, cur, err, sid, broken, engine, lock, commands,
                 command_queue, gen, readerVars, stdin, childVars, nsent,
                 stopped, pureVars>>

\* send_command, lines 124-140: ok = not cmd.error, read with no lock held,
\* and the return of (ok, generator).
ReturnStatus(t) ==
  /\ pc[t] = "status"
  /\ gen' = [gen EXCEPT ![cur[t]] =
               [st |-> IF op[t] = "quit" THEN "dropped" ELSE "fresh",
                i |-> 0, seen |-> <<>>, ok |-> status_ok(commands[cur[t]])]]
  /\ pc' = [pc EXCEPT ![t] = IF op[t] = "quit" THEN "q_wait" ELSE "idle"]
  /\ op' = [op EXCEPT ![t] = IF op[t] = "quit" THEN "quit" ELSE "none"]
  /\ cur' = [cur EXCEPT ![t] = 0]
  /\ UNCHANGED <<arg, ret, err, sid, broken, engine, lock, commands,
                 command_queue, readerVars, stdin, childVars, nsent,
                 stopped, pureVars>>

\* __read_stdout, line 50: the reader, holding self.lock, takes
\* active_command.lock and evaluates empty_line and "not ready".
ReaderEnter ==
  /\ rpc = "lock2"
  /\ commands[active].lock = "free"
  /\ commands' = [commands EXCEPT ![active].lock = "reader"]
  /\ rpc' = IF ~commands[active].ready THEN "status"
            ELSE IF line = <<>> THEN "finish"
            ELSE "append"
  /\ UNCHANGED <<callerVars, engine, lock, command_queue, gen, active, line,
                 rerr, nproc, rd, stdin, childVars, nsent, stopped, pureVars>>

\* mutant: ready is assigned where the status should be
set_status_ready_first(cmd, l) == [cmd EXCEPT !.ready = TRUE]

\* line 56: active_command.error = line.startswith("?")
set_status(cmd, l) == [cmd EXCEPT !.error = (Head(l) = "?")]

\* mutant: the status is classified but ready is never set
set_ready_skipped(cmd) == cmd

\* line 58: active_command.ready = True
set_ready(cmd) == [cmd EXCEPT !.ready = TRUE]

\* lines 54-56: the check of the status marker, which may raise and end the
\* thread (leaving the with block releases both locks), and the assignment
\* of error.
ReaderStatus ==
  /\ rpc = "status"
  /\ IF line_raises(commands[active], line) # "none"
     THEN /\ rerr' = line_raises(commands[active], line)
          /\ rpc' = "crashed"
          /\ commands' = [commands EXCEPT ![active].lock = "free"]
          /\ lock' = "free"
          /\ line' = <<>>
     ELSE /\ commands' = [commands EXCEPT ![active] = set_status(@, line)]
          /\ rpc' = "ready"
          /\ UNCHANGED <<rerr, lock, line>>
  /\ UNCHANGED <<callerVars, engine, command_queue, gen, active, nproc, rd,
                 stdin, childVars, nsent, stopped, pureVars>>

\* lines 57-58: line = line[1:]; active_command.ready = True.  empty_line
\* was evaluated with the marker in place and is false here.
ReaderReady ==
  /\ rpc = "ready"
  /\ line' = Tail(line)
  /\ commands' = [commands EXCEPT ![active] = set_ready(@)]
  /\ rpc' = "append"
  /\ UNCHANGED <<callerVars, engine, lock, command_queue, gen, active, rerr,
                 nproc, rd, stdin, childVars, nsent, stopped, pureVars>>

\* lines 60-62: finished = True; break; both locks are released.
ReaderFinish ==
  /\ rpc = "finish"
  /\ commands' = [commands EXCEPT ![active].finished = TRUE,
                                  ![active].lock = "free"]
  /\ lock' = "free"
  /\ line' = <<>>
  /\ nproc' = rd
  /\ rpc' = "poll"
  /\ UNCHANGED <<callerVars, engine, command_queue, gen, active, rerr, rd,
                 stdin, childVars, nsent, stopped, pureVars>>

\* line 64: response.append(line.strip()); both locks are released.
ReaderAppend ==
  /\ rpc = "append"
  /\ commands' = [commands EXCEPT ![active].response = Append(@, strip(line)),
                                  ![active].lock = "free"]
  /\ lock' = "free"
  /\ line' = <<>>
  /\ nproc' = rd
  /\ rpc' = "read"
  /\ UNCHANGED <<callerVars, engine, command_queue, gen, active, rerr, rd,
                 stdin, childVars, nsent, stopped, pureVars>>

\* One caller thread that sends a command, iterates its response to the
\* end before it sends the next, and quits; the with block of __read_stdout
\* and the return of send_command are taken one statement at a time.
DetailNext ==
  \/ \E m \in Messages : StreamSend(m)
  \/ QuitCall(Main)
  \/ SendWrite(Main)
  \/ SendEnqueue(Main)
  \/ WaitReadyLocked(Main)
  \/ ReturnStatus(Main)
  \/ QuitWait(Main)
  \/ QuitJoin(Main)
  \/ StopPersistent(Main)
  \/ \E c \in 1..MaxSends : CallNext(Main, c)
  \/ GenStep(Main)
  \/ ReaderPoll
  \/ ReaderGet
  \/ ReaderRead
  \/ ReaderEnter
  \/ ReaderStatus
  \/ ReaderReady
  \/ ReaderFinish
  \/ ReaderAppend
  \/ ChildFirst
  \/ ChildBody
  \/ ChildEnd
  \/ ChildExit

DetailSpec == Init /\ [][DetailNext]_vars
\* ------------------------------------------- board.py: the coordinate codec
\* A Python str is a sequence of code points: "A" is 65, "I" 73, "Z" 90,
\* "a" 97, "z" 122, "0" 48, "9" 57.  None is the empty tuple and an int n
\* that may be None is <<n>>.  A call gives [err |-> "none", val |-> v]
\* or, when it raises, [err |-> the exception, val |-> <<>>].
MaxIndex == 9999   \* largest column index given to ext_gtp_str
MaxCoord == 360    \* largest column and row index given to coord_to_gtp

None == <<>>
Ok(v) == [err |-> "none", val |-> v]
Raise(e) == [err |-> e, val |-> <<>>]

PassText == <<112, 97, 115, 115>>                       \* "pass"
VertexTokens == {PassText, <<65, 49>>, <<116, 49, 57>>}  \* "A1", "t19"

isupper(c) == c \in 65..90
islower(c) == c \in 97..122
isdigit(c) == c \in 48..57
isascii(s) == \A i \in 1..Len(s) : s[i] \in 0..127
isalpha(s) == s # <<>> /\ \A i \in 1..Len(s) : isupper(s[i]) \/ islower(s[i])
isalnum(s) ==
  /\ s # <<>>
  /\ \A i \in 1..Len(s) : isupper(s[i]) \/ islower(s[i]) \/ isdigit(s[i])

\* str.upper()
upper(s) == [i \in 1..Len(s) |-> IF islower(s[i]) THEN s[i] - 32 ELSE s[i]]

\* reversed(letters)
reversed(s) == [i \in 1..Len(s) |-> s[Len(s) + 1 - i]]

\* gtp_ord: the assertion, and the value returned when it holds
gtp_ord_assert(c) == isupper(c) /\ c # 73
gtp_ord(c) == c - 65 - (IF c > 73 THEN 1 ELSE 0)

\* mutant: the letter I is not skipped
gtp_chr_with_i(x) == x + 65

\* gtp_chr, for 0 <= x < 26
gtp_chr(x) == (IF x >= 73 - 65 THEN x + 1 ELSE x) + 65

\* ext_gtp_ord: the for loop over the characters of s, from x
RECURSIVE ext_gtp_ord_loop(_, _)
ext_gtp_ord_loop(s, x) ==
  IF s = <<>> THEN x
  ELSE ext_gtp_ord_loop(Tail(s), x * 25 + gtp_ord(Head(s)) + 1)

ext_gtp_ord(s) ==
  IF s = <<>> \/ ~isascii(s) \/ ~isalpha(s) THEN Raise("AssertionError")
  ELSE IF \E i \in 1..Len(s) : ~gtp_ord_assert(upper(s)[i])
       THEN Raise("AssertionError")
  ELSE Ok(ext_gtp_ord_loop(upper(s), 0) - 1)

\* ext_gtp_str: the while loop, from x and the letters found so far
RECURSIVE ext_gtp_str_loop(_, _)
ext_gtp_str_loop(x, letters) ==
  IF x <= 0 THEN letters
  ELSE LET q == x \div 25
           r == x % 25
       IN IF r = 0
          THEN ext_gtp_str_loop(q - 1, Append(letters, gtp_chr(25 - 1)))
          ELSE ext_gtp_str_loop(q, Append(letters, gtp_chr(r - 1)))

\* ext_gtp_str(x); "assert x >= 0" cannot compare None
ext_gtp_str(x) ==
  IF x = None THEN Raise("TypeError")
  ELSE IF x[1] < 0 THEN Raise("AssertionError")
  ELSE Ok(reversed(ext_gtp_str_loop(x[1] + 1, <<>>)))

\* str(n) for an int n >= 0
RECURSIVE str(_)
str(n) == IF n < 10 THEN <<48 + n>> ELSE Append(str(n \div 10), 48 + (n % 10))

\* int(s) for a string of digits
RECURSIVE int(_)
int(s) ==
  IF s = <<>> THEN 0 ELSE int(SubSeq(s, 1, Len(s) - 1)) * 10 + s[Len(s)] - 48

\* coord_to_gtp(x, y): ext_gtp_str(x) + str(y + 1)
coord_to_gtp(x, y) ==
  IF ext_gtp_str(x).err # "none" THEN ext_gtp_str(x)
  ELSE IF y = None THEN Raise("TypeError")
  ELSE Ok(ext_gtp_str(x).val \o str(y[1] + 1))

\* The greedy groups of re.match(r'([A-HJ-Z]+)(\d+)', s): the longest run
\* of column letters at the start of s, the longest run of digits after it.
RECURSIVE letters_run(_)
letters_run(s) ==
  IF s # <<>> /\ isupper(Head(s)) /\ Head(s) # 73
  THEN <<Head(s)>> \o letters_run(Tail(s))
  ELSE <<>>

RECURSIVE digits_run(_)
digits_run(s) ==
  IF s # <<>> /\ isdigit(Head(s)) THEN <<Head(s)>> \o digits_run(Tail(s))
  ELSE <<>>

\* mutant: the row is left one-based
row_index_one_based(numbers) == int(numbers)

\* coord_from_gtp, line 132: y = int(numbers) - 1
row_index(numbers) == int(numbers) - 1

\* coord_from_gtp(s)
coord_from_gtp(s) ==
  IF ~isalnum(s) \/ ~isascii(s) THEN Raise("ValueError")
  ELSE LET letters == letters_run(upper(s))
           numbers ==
             digits_run(SubSeq(upper(s), Len(letters) + 1, Len(s)))
       IN IF letters = <<>> \/ numbers = <<>> THEN Raise("ValueError")
          ELSE IF ext_gtp_ord(letters).err # "none" THEN ext_gtp_ord(letters)
          ELSE Ok(<<ext_gtp_ord(letters).val, row_index(numbers)>>)

\* Vertex.__init__(x) for a str x
Vertex(s) ==
  IF s = PassText THEN Ok([x |-> None, y |-> None])
  ELSE IF coord_from_gtp(s).err # "none" THEN coord_from_gtp(s)
  ELSE Ok([x |-> <<coord_from_gtp(s).val[1]>>,
           y |-> <<coord_from_gtp(s).val[2]>>])

\* Vertex.gtp_str / __str__
gtp_str(v) == coord_to_gtp(v.x, v.y)

engineVars ==
  <<callerVars, engine, lock, commands, command_queue, gen, readerVars,
    stdin, childVars, nsent, stopped>>

\* ext_gtp_str and ext_gtp_ord applied, one after the other, to a column
\* index.
ExtInit ==
  /\ EngineInit
  /\ stage = "index"
  /\ pin \in {<<x>> : x \in 0..MaxIndex}
  /\ ptext = <<>>
  /\ pout = <<>>

ExtEncode ==
  /\ stage = "index"
  /\ ptext' = ext_gtp_str(pin)
  /\ stage' = "letters"
  /\ UNCHANGED <<pin, pout, engineVars>>

ExtDecode ==
  /\ stage = "letters"
  /\ ptext.err = "none"
  /\ pout' = ext_gtp_ord(ptext.val)
  /\ stage' = "index_back"
  /\ UNCHANGED <<pin, ptext, engineVars>>

ExtNext == ExtEncode \/ ExtDecode

ExtSpec == ExtInit /\ [][ExtNext]_vars

\* coord_to_gtp and coord_from_gtp applied to a (col, row) pair, and
\* Vertex(str) and gtp_str applied to a vertex token.
BoardInit ==
  /\ EngineInit
  /\ ptext = <<>>
  /\ pout = <<>>
  /\ \/ /\ stage = "coord"
        /\ pin \in {<<x, y>> : x \in 0..MaxCoord, y \in 0..MaxCoord}
     \/ /\ stage = "token"
        /\ pin \in VertexTokens

CoordEncode ==
  /\ stage = "coord"
  /\ ptext' = coord_to_gtp(<<pin[1]>>, <<pin[2]>>)
  /\ stage' = "coord_text"
  /\ UNCHANGED <<pin, pout, engineVars>>

CoordDecode ==
  /\ stage = "coord_text"
  /\ ptext.err = "none"
  /\ pout' = coord_from_gtp(ptext.val)
  /\ stage' = "coord_back"
  /\ UNCHANGED <<pin, ptext, engineVars>>

TokenDecode ==
  /\ stage = "token"
  /\ pout' = Vertex(pin)
  /\ stage' = "vertex"
  /\ UNCHANGED <<pin, ptext, engineVars>>

TokenEncode ==
  /\ stage = "vertex"
  /\ pout.err = "none"
  /\ ptext' = gtp_str(pout.val)
  /\ stage' = "token_back"
  /\ UNCHANGED <<pin, pout, engineVars>>

BoardNext == CoordEncode \/ CoordDecode \/ TokenDecode \/ TokenEncode

BoardSpec == BoardInit /\ [][BoardNext]_vars
\* --------------------------------------- katago.py: the lz-analyze decoder
MaxWords == 5      \* longest line, in words, given to parse_lz_analyze_line

\* The words of the lines, as code points.
w_info == <<105, 110, 102, 111>>
w_move == <<109, 111, 118, 101>>
w_visits == <<118, 105, 115, 105, 116, 115>>
w_winrate == <<119, 105, 110, 114, 97, 116, 101>>
w_prior == <<112, 114, 105, 111, 114>>
w_lcb == <<108, 99, 98>>
w_order == <<111, 114, 100, 101, 114>>
w_pv == <<112, 118>>
w_D4 == <<68, 52>>
w_C3 == <<67, 51>>
w_Q16 == <<81, 49, 54>>
w_100 == <<49, 48, 48>>
w_5500 == <<53, 53, 48, 48>>
w_200 == <<50, 48, 48>>
w_0 == <<48>>
w_50 == <<53, 48>>
w_foo == <<102, 111, 111>>

LineWords == {w_info, w_move, w_visits, w_pv, w_D4, w_100, w_foo}

\* "info move D4 visits 100 winrate 5500 prior 200 order 0 pv D4 C3
\*  info move Q16 visits 50"
ExampleWords ==
  <<w_info, w_move, w_D4, w_visits, w_100, w_winrate, w_5500, w_prior,
    w_200, w_order, w_0, w_pv, w_D4, w_C3, w_info, w_move, w_Q16,
    w_visits, w_50>>

\* " info  lcb 200 pv " : surrounding and repeated blanks, an empty pv
PaddedLine ==
  <<32>> \o w_info \o <<32, 32>> \o w_lcb \o <<32>> \o w_200 \o <<32>>
    \o w_pv \o <<32>>

\* " ".join(ws)
RECURSIVE join(_)
join(ws) ==
  IF ws = <<>> THEN <<>>
  ELSE IF Len(ws) = 1 THEN ws[1]
  ELSE ws[1] \o <<32>> \o join(Tail(ws))

isspace(c) == c \in {9, 10, 11, 12, 13, 32}

\* str.split(): the maximal runs of characters that are not whitespace
RECURSIVE split_loop(_, _, _)
split_loop(s, word, acc) ==
  IF s = <<>> THEN (IF word = <<>> THEN acc ELSE Append(acc, word))
  ELSE IF isspace(Head(s))
       THEN split_loop(Tail(s), <<>>,
                       IF word = <<>> THEN acc ELSE Append(acc, word))
  ELSE split_loop(Tail(s), Append(word, Head(s)), acc)

split(s) == split_loop(s, <<>>, <<>>)

\* words[i] of Python, i counted from 0
W(words, i) == words[i + 1]

\* LzAnalyzeMoveInfo(): every field None.  A field that is set holds <<v>>.
NoInfo ==
  [move |-> None, visits |-> None, winrate |-> None, prior |-> None,
   lcb |-> None, order |-> None, pv |-> None]

ScalarKeys == {w_move, w_visits, w_winrate, w_prior, w_lcb, w_order}

\* int(w) of Python for the words of digits; any other word raises
int_of(w) ==
  IF w # <<>> /\ \A i \in 1..Len(w) : isdigit(w[i]) THEN Ok(int(w))
  ELSE Raise("ValueError")

\* lines 34-49: the value stored for a key; float(int(w) / 10000) is kept
\* as the fraction it denotes
field_value(k, w) ==
  IF k = w_move THEN Vertex(w)
  ELSE IF k \in {w_visits, w_order} THEN int_of(w)
  ELSE IF int_of(w).err # "none" THEN int_of(w)
  ELSE Ok([num |-> int(w), den |-> 10000])

\* info_dict[key] = v
set_field(d, k, v) ==
  IF k = w_move THEN [d EXCEPT !.move = <<v>>]
  ELSE IF k = w_visits THEN [d EXCEPT !.visits = <<v>>]
  ELSE IF k = w_winrate THEN [d EXCEPT !.winrate = <<v>>]
  ELSE IF k = w_prior THEN [d EXCEPT !.prior = <<v>>]
  ELSE IF k = w_lcb THEN [d EXCEPT !.lcb = <<v>>]
  ELSE [d EXCEPT !.order = <<v>>]

\* lines 54-60: the loop over the vertices of a pv; only ValueError is
\* caught
RECURSIVE pv_loop(_, _, _)
pv_loop(words, i, pv) ==
  IF i >= Len(words) THEN Ok([i |-> i, pv |-> pv])
  ELSE IF Vertex(W(words, i)).err = "ValueError"
       THEN Ok([i |-> i, pv |-> pv])
  ELSE IF Vertex(W(words, i)).err # "none" THEN Vertex(W(words, i))
  ELSE pv_loop(words, i + 1, Append(pv, Vertex(W(words, i)).val))

\* mutant: the value of a key is not stepped over
after_value_short(i) == i + 1

\* i += 2
after_value(i) == i + 2

\* lines 32-63: the loop over the keys of one record
RECURSIVE info_loop(_, _, _)
info_loop(words, i, d) ==
  IF i >= Len(words) THEN Ok([i |-> i, res |-> d])
  ELSE IF W(words, i) \in ScalarKeys
       THEN IF i + 1 >= Len(words) THEN Raise("IndexError")
            ELSE IF field_value(W(words, i), W(words, i + 1)).err # "none"
                 THEN field_value(W(words, i), W(words, i + 1))
            ELSE info_loop(words, after_value(i),
                   set_field(d, W(words, i),
                             field_value(W(words, i), W(words, i + 1)).val))
  ELSE IF W(words, i) = w_pv
       THEN IF pv_loop(words, i + 1, <<>>).err # "none"
            THEN pv_loop(words, i + 1, <<>>)
            ELSE info_loop(words, pv_loop(words, i + 1, <<>>).val.i,
                   [d EXCEPT !.pv = <<pv_loop(words, i + 1, <<>>).val.pv>>])
  ELSE Ok([i |-> i, res |-> d])

\* parse_lz_analyze_info(words, st)
parse_lz_analyze_info(words, st) ==
  IF W(words, st) # w_info THEN Raise("ValueError")
  ELSE info_loop(words, st + 1, NoInfo)

\* lines 76-81: the loop over the words of the line
RECURSIVE line_loop(_, _, _)
line_loop(words, i, res) ==
  IF i >= Len(words) THEN Ok(res)
  ELSE IF W(words, i) = w_info
       THEN IF parse_lz_analyze_info(words, i).err # "none"
            THEN parse_lz_analyze_info(words, i)
            ELSE line_loop(words, parse_lz_analyze_info(words, i).val.i,
                           Append(res, parse_lz_analyze_info(words, i).val.res))
  ELSE line_loop(words, i + 1, res)

\* parse_lz_analyze_line(line); strip() removes nothing that split() keeps
parse_lz_analyze_line(l) ==
  IF Len(split(l)) < 1 THEN Ok(<<>>) ELSE line_loop(split(l), 0, <<>>)

\* parse_lz_analyze_line applied to a line of at most MaxWords words, to the
\* example line and to a line with more blanks.
LzInit ==
  /\ EngineInit
  /\ stage = "line"
  /\ pin \in {join(ws) : ws \in UNION {[1..n -> LineWords] : n \in 0..MaxWords}}
             \cup {join(ExampleWords), PaddedLine}
  /\ ptext = <<>>
  /\ pout = <<>>

LzParse ==
  /\ stage = "line"
  /\ pout' = parse_lz_analyze_line(pin)
  /\ stage' = "records"
  /\ UNCHANGED <<pin, ptext, engineVars>>

LzNext == LzParse

LzSpec == LzInit /\ [][LzNext]_vars
\* ------------------------------------------ the first engine, src/engine.py
\* src/engine.py is the engine before the status line was told apart from
\* the body.  Its __send, its generator, its stop_persistent and the head of
\* its reader loop are, statement for statement, those modelled above; what
\* differs is the __Command (no ready, no error), the body of the reader's
\* with block, and the two public calls: send_command waits for the end of
\* the response and returns a list, send_command_persistent returns the
\* generator at once.  gen[c] holds what the call for command c returned:
\* the generator, or (st = "list") the list in seen.
OldMethods == {"send_command", "send_command_persistent"}

\* GTPEngine.__Command.__init__ of src/engine.py, with the history fields
OldCommand(message, n, t) ==
  [command |-> message, response |-> <<>>, finished |-> FALSE,
   lock |-> "free", sid |-> n, owner |-> t]

OldNoGen == [st |-> "none", i |-> 0, seen |-> <<>>]

\* Every call of caller t has returned its list or run its generator to the
\* end: the calls follow one another as in the example at the end of the
\* file.
OldSettled(t) ==
  \A c \in DOMAIN commands :
    commands[c].owner = t => gen[c].st \in {"list", "done"}

\* A caller enters send_command(command) or send_command_persistent(command).
OldCall(t, m, k) ==
  /\ pc[t] = "idle"
  /\ OldSettled(t)
  /\ MayCall(m)
  /\ pc' = [pc EXCEPT ![t] = "send"]
  /\ op' = [op EXCEPT ![t] = k]
  /\ arg' = [arg EXCEPT ![t] = m]
  /\ err' = [err EXCEPT ![t] = "none"]
  /\ broken' = [broken EXCEPT ![t] = (rerr # "none")]
  /\ ret' = [ret EXCEPT ![t] = "none"]
  /\ UNCHANGED <<cur, sid, engine, lock, commands, command_queue, gen,
                 readerVars, stdin, childVars, nsent, stopped, pureVars>>

\* __send, the "with self.lock" block.  send_command_persistent then only
\* builds the generator and returns it; send_command goes on to wait.
OldEnqueue(t) ==
  /\ pc[t] = "enq"
  /\ lock = "free"
  /\ commands' = Append(commands, OldCommand(arg[t], sid[t], t))
  /\ command_queue' = Append(command_queue, Len(commands) + 1)
  /\ arg' = [arg EXCEPT ![t] = <<>>]
  /\ sid' = [sid EXCEPT ![t] = 0]
  /\ ret' = [ret EXCEPT ![t] = "none"]
  /\ IF op[t] = "send_command_persistent"
     THEN /\ gen' = Append(gen, [OldNoGen EXCEPT !.st = "fresh"])
          /\ pc' = [pc EXCEPT ![t] = "idle"]
          /\ op' = [op EXCEPT ![t] = "none"]
          /\ UNCHANGED cur
     ELSE /\ gen' = Append(gen, OldNoGen)
          /\ pc' = [pc EXCEPT ![t] = "wait_finished"]
          /\ cur' = [cur EXCEPT ![t] = Len(commands) + 1]
          /\ UNCHANGED op
  /\ UNCHANGED <<err, broken, engine, lock, readerVars, stdin, childVars,
                 nsent, stopped, pureVars>>

\* mutant: the wait returns without looking at command.finished
wait_finished_exit_any(cmd) == TRUE

\* wait_util_finished: the condition that leaves the polling loop
wait_finished_exit(cmd) == cmd.finished

\* wait_util_finished sees command.finished under self.lock and returns.
OldWaitFinished(t) ==
  /\ pc[t] = "wait_finished"
  /\ lock = "free"
  /\ wait_finished_exit(commands[cur[t]])
  /\ pc' = [pc EXCEPT ![t] = "copy"]
  /\ UNCHANGED <<op, arg, ret, cur, err, sid, broken, engine, lock, commands,
                 command_queue, gen, readerVars, stdin, childVars, nsent,
                 stopped, pureVars>>

\* send_command: return cmd.response.copy(), taken without a lock
OldReturn(t) ==
  /\ pc[t] = "copy"
  /\ gen' = [gen EXCEPT ![cur[t]] =
               [st |-> "list", i |-> 0, seen |-> commands[cur[t]].response]]
  /\ pc' = [pc EXCEPT ![t] = "idle"]
  /\ op' = [op EXCEPT ![t] = "none"]
  /\ cur' = [cur EXCEPT ![t] = 0]
  /\ UNCHANGED <<arg, ret, err, sid, broken, engine, lock, commands,
                 command_queue, readerVars, stdin, childVars, nsent, stopped,
                 pureVars>>

\* mutant: every line ends the response
old_process_line_finish_any(cmd, l) ==
  [cmd EXCEPT !.response = Append(@, l), !.finished = TRUE]

\* The body of the reader's with block: every line is appended, the empty
\* one too, and the empty one ends the response.
old_process_line(cmd, l) ==
  LET c1 == [cmd EXCEPT !.response = Append(@, l)]
  IN IF l = <<>> THEN [c1 EXCEPT !.finished = TRUE] ELSE c1

\* The reader takes active_command.lock, runs the body of the with block and
\* releases both locks; nothing in the block raises.
OldReaderProcess ==
  /\ rpc = "lock2"
  /\ commands[active].lock = "free"
  /\ lock' = "free"
  /\ commands' = [commands EXCEPT ![active] = old_process_line(@, line)]
  /\ rpc' = next_position(line)
  /\ line' = <<>>
  /\ nproc' = rd
  /\ UNCHANGED <<callerVars, engine, command_queue, gen, active, rerr, rd,
                 stdin, childVars, nsent, stopped, pureVars>>

OldNext ==
  \/ \E m \in Messages : \E k \in OldMethods : OldCall(Main, m, k)
  \/ SendWrite(Main)
  \/ OldEnqueue(Main)
  \/ OldWaitFinished(Main)
  \/ OldReturn(Main)
  \/ StopPersistent(Main)
  \/ \E c \in 1..MaxSends : CallNext(Main, c)
  \/ GenStep(Main)
  \/ ReaderPoll
  \/ ReaderGet
  \/ ReaderRead
  \/ OldReaderProcess
  \/ ChildSkip
  \/ ChildFirst
  \/ ChildBody
  \/ ChildEnd

OldSpec == Init /\ [][OldNext]_vars
\* ------------------------------------------------- the child's output, read
\* back from the history out: line j is blank when nothing is left of it
\* after trimming, a response block ends with its first blank line.
IsBlank(j) == strip(out[j].line) = <<>>

BlockOf(j) == 1 + Cardinality({i \in 1..(j - 1) : IsBlank(i)})

IsBlockStart(j) == j = 1 \/ IsBlank(j - 1)

BlockStart(k) == CHOOSE j \in 1..Len(out) : BlockOf(j) = k /\ IsBlockStart(j)

\* The lines of block k among the first n lines of out, as printed.
RECURSIVE RawBlock(_, _)
RawBlock(k, n) ==
  IF n = 0 THEN <<>>
  ELSE IF BlockOf(n) = k THEN Append(RawBlock(k, n - 1), out[n].line)
  ELSE RawBlock(k, n - 1)

\* What line j contributes to a body: the text after the status marker for
\* the first line of a block, the trimmed text for the others.
Content(j) ==
  IF IsBlockStart(j) THEN strip(Tail(strip(out[j].line)))
  ELSE strip(out[j].line)

\* The body of block k carried by the first n lines of out.
RECURSIVE BodyUpTo(_, _)
BodyUpTo(k, n) ==
  IF n = 0 THEN <<>>
  ELSE IF BlockOf(n) = k /\ ~IsBlank(n)
       THEN Append(BodyUpTo(k, n - 1), Content(n))
  ELSE BodyUpTo(k, n - 1)

\* ------------------------------------------------------------------ claims

\* C1: FIFO attribution.  The k-th command of the Ledger owns exactly the
\* k-th blank-line-terminated block of the child's output: its body is the
\* body of that block as far as the reader has got, it is ready once the
\* block's first line is processed and finished once its blank line is, its
\* error flag is the block's status marker, and it is ready only after the
\* command before it is finished.
FifoAttribution ==
  /\ \A j \in 1..nproc : BlockOf(j) <= Len(commands)
  /\ \A k \in DOMAIN commands :
       /\ commands[k].response = BodyUpTo(k, nproc)
       /\ commands[k].ready <=> \E j \in 1..nproc : BlockOf(j) = k
       /\ commands[k].finished <=>
            \E j \in 1..nproc : BlockOf(j) = k /\ IsBlank(j)
       /\ commands[k].ready =>
            (commands[k].error <=> Head(strip(out[BlockStart(k)].line)) = "?")
       /\ (k > 1 /\ commands[k].ready) => commands[k - 1].finished

\* C1 witness: two commands are finished and each holds its own, different,
\* non-empty body.
FifoAttributionWitness ==
  /\ Len(commands) >= 2
  /\ commands[1].finished /\ commands[2].finished
  /\ commands[1].response # <<>> /\ commands[2].response # <<>>
  /\ commands[1].response # commands[2].response

\* C2: concurrent senders.  The command lines reach the child's stdin in the
\* order in which their Commands are enqueued, and the response a Command
\* receives is the one the child printed for that Command's own line.
WriteOrderIsLedgerOrder ==
  /\ \A j, k \in DOMAIN commands :
       j < k => commands[j].sid < commands[k].sid
  /\ \A k \in DOMAIN commands :
       commands[k].ready => out[BlockStart(k)].src = commands[k].sid

\* C3: the lazy sequence yields the body lines the reader appended, in
\* arrival order, each once, and ends only when the command is finished and
\* every line has been yielded; the child output "=2", "" gives ok and ["2"].
LazySequenceExact ==
  \A c \in DOMAIN commands :
    LET g == gen[c]
        cmd == commands[c]
    IN /\ Len(g.seen) <= Len(cmd.response)
       /\ g.seen = SubSeq(cmd.response, 1, Len(g.seen))
       /\ Len(g.seen) = g.i + (IF g.st = "yielded" THEN 1 ELSE 0)
       /\ g.st = "done" => cmd.finished /\ g.seen = cmd.response
       /\ (g.st = "done" /\ RawBlock(c, Len(out)) = << <<"=", "2">>, <<>> >>)
            => g.ok /\ g.seen = << <<"2">> >>

\* C3 witness: a sequence of two lines has been consumed to its end.
LazySequenceWitness ==
  \E c \in DOMAIN commands : gen[c].st = "done" /\ Len(gen[c].seen) = 2

\* C4: send_command has returned for a command only if the command is ready,
\* and the ok it returned is true exactly when the first line of the
\* command's response began with "=".
SendReturnsAtStatus ==
  \A c \in DOMAIN commands :
    gen[c].st # "none" =>
      /\ commands[c].ready
      /\ gen[c].ok <=> Head(strip(out[BlockStart(c)].line)) = "="

\* C4 witness: send_command has returned ok = false for a command whose
\* body is still incomplete.
SendReturnsEarlyWitness ==
  \E c \in DOMAIN commands :
    /\ gen[c].st = "fresh"
    /\ ~gen[c].ok
    /\ ~commands[c].finished
\* C5: streaming cancellation.  Once stop_persistent has been called for a
\* persistent command whose response the caller holds, having consumed any
\* number of its lines, the caller's iteration of that response comes to an
\* end with the command finished.
StreamTerminates ==
  \A c \in 1..MaxSends :
    (c \in stopped) ~>
      (c \in DOMAIN commands /\ gen[c].st = "done" /\ commands[c].finished)

\* C5 witness: a stopped persistent command whose response was consumed to
\* its end, body lines included.
StreamTerminatesWitness ==
  \E c \in stopped :
    /\ gen[c].st = "done"
    /\ commands[c].finished
    /\ Len(gen[c].seen) >= 2

\* C6: malformed response handling.  Once the reader has stopped with the
\* protocol error, a send called after that fails and writes nothing.
SendsRejectedAfterProtocolError ==
  [][\A t \in Callers :
       (rerr = "RuntimeError" /\ broken[t] /\ pc[t] = "send"
          /\ pc'[t] # "send")
         => (pc'[t] = "idle" /\ err'[t] # "none" /\ stdin' = stdin)]_vars

\* C7: shutdown terminates.  When quit() has reached the join with its quit
\* command answered in full and well formed, the child gone and nothing else
\* in flight, the reader is not parked for ever in Queue.get(): no command
\* can be enqueued any more, so a parked reader means the join never returns.
QuitAnswered(t) ==
  /\ pc[t] = "q_join"
  /\ childState = "dead"
  /\ rerr = "none"
  /\ \A c \in DOMAIN commands : commands[c].finished
  /\ \A u \in Callers \ {t} : pc[u] = "idle"

ReaderParked == rpc = "get" /\ command_queue = <<>>

QuitJoinCompletes == \A t \in Callers : QuitAnswered(t) => ~ReaderParked

IsFailure(k) ==
  commands[k].ready /\ Head(strip(out[BlockStart(k)].line)) = "?"

FailureNotFatal ==
  /\ \A k \in DOMAIN commands :
       IsFailure(k) =>
         /\ commands[k].error
         /\ gen[k].st # "none" => ~gen[k].ok
         /\ commands[k].response # <<>>
         /\ commands[k].response[1] =
              strip(Tail(strip(out[BlockStart(k)].line)))
         /\ (out[BlockStart(k)].line = <<"?", " ", "unacceptable size">>
               => commands[k].response[1] = <<"unacceptable size">>)
         /\ (k + 1) \in DOMAIN commands =>
              commands[k + 1].response = BodyUpTo(k + 1, nproc)
  /\ (rerr # "none" /\ rd > nproc) =>
       \/ strip(out[rd].line) = <<>>
       \/ Head(strip(out[rd].line)) \notin {"=", "?"}

\* C9 witness: the first command failed with its detail as body, and the
\* second was answered with success and its own body, the reader alive.
FailureNotFatalWitness ==
  /\ Len(commands) >= 2
  /\ commands[1].error
  /\ commands[1].response = << <<"unacceptable size">> >>
  /\ commands[1].finished
  /\ commands[2].finished /\ ~commands[2].error
  /\ commands[2].response = << <<"2">>, <<"=", "info">> >>
  /\ rerr = "none"

\* C10: empty command rejection.  A send whose text has only whitespace
\* before its first "#" (or before its end) raises the empty-command error
\* and changes nothing of the session.
EmptyText(m) ==
  \A i \in 1..Len(m) : m[i] = " " \/ \E j \in 1..i : m[j] = "#"

EmptyCommandRejected ==
  [][\A t \in Callers :
       (pc[t] = "send" /\ pc'[t] # "send" /\ EmptyText(arg[t]))
         => /\ pc'[t] = "idle"
            /\ err'[t] = "ValueError"
            /\ UNCHANGED <<engine, lock, commands, command_queue, gen,
                           readerVars, stdin, childVars, nsent, stopped,
                           pureVars>>]_vars

\* C10 witness: a send was rejected as empty while a command was in the
\* Ledger, and the session went on to answer that command.
EmptyCommandWitness ==
  \E t \in Callers :
    /\ err[t] = "ValueError"
    /\ Len(commands) = 1
    /\ commands[1].finished

\* C11: Command monotonicity.  No step removes a Command; for every Command
\* a step leaves the lines it already has in place and adds new ones only at
\* the end, never resets ready or finished, and never changes the error flag
\* (hence ok) once ready is true.
CommandMonotonic ==
  [][\A c \in DOMAIN commands :
       /\ c \in DOMAIN commands'
       /\ Len(commands'[c].response) >= Len(commands[c].response)
       /\ SubSeq(commands'[c].response, 1, Len(commands[c].response)) =
            commands[c].response
       /\ commands[c].ready => commands'[c].ready
       /\ commands[c].finished => commands'[c].finished
       /\ commands[c].ready => commands'[c].error = commands[c].error]_vars

\* C11 witness: a failed command that took a status line, a body line and
\* the closing empty line, one after the other.
CommandMonotonicWitness ==
  \E c \in DOMAIN commands :
    /\ commands[c].error
    /\ commands[c].finished
    /\ Len(commands[c].response) = 2

\* C12: no torn update.  In every state, between the statements of the
\* reader's with block included, a Command that is ready has the error flag
\* its status line calls for, and the ok that send_command returned for a
\* command is the negation of that flag, never the default of a command
\* whose status was not yet recorded.
NoTornUpdate ==
  \A c \in DOMAIN commands :
    /\ commands[c].ready =>
         (commands[c].error <=> Head(strip(out[BlockStart(c)].line)) = "?")
    /\ gen[c].st # "none" =>
         /\ commands[c].ready
         /\ gen[c].ok <=> Head(strip(out[BlockStart(c)].line)) # "?"

\* C12 witness: the caller has left the ready wait for a failed command and
\* is about to read its error flag, while the reader is inside the with
\* block again for the next line of that command.
NoTornUpdateWitness ==
  /\ pc[Main] = "status"
  /\ commands[cur[Main]].error
  /\ active = cur[Main]
  /\ rpc = "append"

\* C13: per-command lock independence.  A caller u that holds the suspended
\* line sequence of its Command A does not keep a different caller t from
\* sending or from learning the status of another Command: there is no state
\* in which t waits for the session lock, the reader holds the session lock
\* waiting for A's lock, and A's lock is held by u's suspended sequence.
IndependentCallersNeverBlock ==
  \A t, u \in Callers :
    t # u =>
      ~ /\ pc[t] \in {"enq", "wait_ready"}
        /\ pc[u] = "idle"
        /\ lock = "reader"
        /\ rpc = "lock2"
        /\ commands[active].owner = u
        /\ commands[active].lock = "gen"
        /\ gen[active].st = "yielded"

\* C14: one active command.  The Commands still in the queue are the newest
\* ones, in order, and none of them is ready or has a line; of the Commands
\* taken from the queue at most one is unfinished, and it is the last one
\* taken, so every Command before it is finished.
OneActiveCommand ==
  LET popped == Len(commands) - Len(command_queue)
  IN /\ popped >= 0
     /\ command_queue = [i \in 1..Len(command_queue) |-> popped + i]
     /\ popped > 0 => active = popped
     /\ Cardinality({c \in 1..popped : ~commands[c].finished}) <= 1
     /\ \A c \in 1..popped :
          ~commands[c].finished => \A b \in 1..(c - 1) : commands[b].finished
     /\ \A c \in (popped + 1)..Len(commands) :
          ~commands[c].ready /\ commands[c].response = <<>>

\* C14 witness: the first command is active with part of its body while
\* the second waits in the queue.
OneActiveCommandWitness ==
  /\ Len(commands) = 2
  /\ command_queue = <<2>>
  /\ active = 1
  /\ commands[1].ready /\ ~commands[1].finished
  /\ commands[1].response # <<>>

\* C15: write failure.  When the stream takes only part of the line, or the
\* flush to a child that has exited fails, __send raises (RuntimeError or
\* BrokenPipeError) and returns to the caller without writing again, and
\* nothing is created or enqueued; the Command a send enqueues belongs to a
\* write that took the whole line.
WriteFailureReported ==
  [][\A t \in Callers :
       /\ (pc[t] = "send" /\ pc'[t] # "send"
             /\ (ret'[t] = "short" \/ err'[t] = "BrokenPipeError"))
            => /\ pc'[t] = "idle"
               /\ err'[t] \in {"RuntimeError", "BrokenPipeError"}
               /\ ret'[t] = "short" => err'[t] = "RuntimeError"
               /\ UNCHANGED <<stdin, nsent, commands, command_queue, gen>>
       /\ (pc[t] = "enq" /\ pc'[t] # "enq")
            => /\ ret[t] = "full"
               /\ Len(commands') = Len(commands) + 1]_vars

\* C15 witness: a send failed on a short write after an earlier command
\* had been answered; the Ledger holds that command alone and nothing is
\* on its way to the child.
WriteFailureWitness ==
  \E t \in Callers :
    /\ err[t] = "RuntimeError" /\ ret[t] = "short"
    /\ Len(commands) = 1 /\ commands[1].finished
    /\ stdin = <<>>

\* C16: pass round-trip.  Vertex("pass") has both coordinates None, and
\* gtp_str of that vertex is the text "pass" again.
PassRoundTrip ==
  pin = PassText =>
    /\ stage \in {"vertex", "token_back"} =>
         pout = Ok([x |-> None, y |-> None])
    /\ stage = "token_back" => ptext = Ok(PassText)

\* C17: coordinate round-trip.  For 0 <= x <= MaxIndex, ext_gtp_str(x) is a
\* non-empty string of the letters A-H, J-Z and ext_gtp_ord gives x back
\* from it.
ExtRoundTrip ==
  /\ stage \in {"letters", "index_back"} =>
       /\ ptext.err = "none"
       /\ ptext.val # <<>>
       /\ \A i \in 1..Len(ptext.val) :
            ptext.val[i] \in 65..90 /\ ptext.val[i] # 73
  /\ stage = "index_back" => pout = Ok(pin[1])

\* C17 witness: the largest index went through both conversions and took
\* three letters.
ExtRoundTripWitness ==
  /\ stage = "index_back"
  /\ pin = <<MaxIndex>>
  /\ Len(ptext.val) = 3
  /\ pout.val = MaxIndex

\* C18: vertex round-trip.  For 0 <= col, row <= MaxCoord the text of
\* coord_to_gtp(col, row) is the letters of col followed by the decimal
\* digits of row + 1, and coord_from_gtp gives (col, row) back from it.
VertexRoundTrip ==
  /\ stage \in {"coord_text", "coord_back"} =>
       ptext = Ok(ext_gtp_str(<<pin[1]>>).val \o str(pin[2] + 1))
  /\ stage = "coord_back" => pout = Ok(pin)

\* C18 witness: the corner (MaxCoord, MaxCoord) went through both
\* conversions, and its text has more than one letter and one digit.
VertexRoundTripWitness ==
  /\ stage = "coord_back"
  /\ pin = <<MaxCoord, MaxCoord>>
  /\ Len(ptext.val) >= 5
  /\ pout.val = pin

\* C19: extension decoder.  For a line in which every recognized key is
\* followed by a well-formed value, parse_lz_analyze_line raises nothing and
\* returns one record per "info" word, in order; the k-th record holds the
\* fields of the words that follow the k-th "info" up to the first
\* unrecognized word, the words from there to the next "info" being skipped,
\* and a pv holds the vertices that follow it up to the first word that is
\* not a vertex.
IsVertexWord(w) == Vertex(w).err = "none"

WellFormedWords(ws) ==
  \A j \in 1..Len(ws) :
    ws[j] \in ScalarKeys =>
      /\ j < Len(ws)
      /\ IF ws[j] = w_move THEN IsVertexWord(ws[j + 1])
         ELSE int_of(ws[j + 1]).err = "none"

InfoAt(ws) == {j \in 1..Len(ws) : ws[j] = w_info}

\* The position of the k-th "info", and the words between it and the next
\* "info" or the end of the line.
InfoPos(ws, k) ==
  CHOOSE j \in InfoAt(ws) : Cardinality({i \in InfoAt(ws) : i < j}) = k - 1

Segment(ws, k) ==
  LET next == {j \in InfoAt(ws) : j > InfoPos(ws, k)}
      last == IF next = {} THEN Len(ws)
              ELSE (CHOOSE j \in next : \A i \in next : j <= i) - 1
  IN SubSeq(ws, InfoPos(ws, k) + 1, last)

\* The vertices at the start of a run of words.
RECURSIVE VertexRun(_)
VertexRun(seg) ==
  IF seg # <<>> /\ IsVertexWord(Head(seg))
  THEN <<Vertex(Head(seg)).val>> \o VertexRun(Tail(seg))
  ELSE <<>>

\* The record a segment stands for.
RECURSIVE SegmentRecord(_, _)
SegmentRecord(seg, d) ==
  IF seg = <<>> THEN d
  ELSE IF Head(seg) \in ScalarKeys
       THEN SegmentRecord(Tail(Tail(seg)),
              set_field(d, Head(seg), field_value(Head(seg), seg[2]).val))
  ELSE IF Head(seg) = w_pv
       THEN SegmentRecord(
              SubSeq(seg, 2 + Len(VertexRun(Tail(seg))), Len(seg)),
              [d EXCEPT !.pv = <<VertexRun(Tail(seg))>>])
  ELSE d

LzRecordsPerMarker ==
  (stage = "records" /\ WellFormedWords(split(pin))) =>
    /\ pout.err = "none"
    /\ Len(pout.val) = Cardinality(InfoAt(split(pin)))
    /\ \A k \in 1..Len(pout.val) :
         pout.val[k] = SegmentRecord(Segment(split(pin), k), NoInfo)

\* C19 witness: the example line was decoded into its two records.
LzRecordsWitness ==
  /\ stage = "records"
  /\ pin = join(ExampleWords)
  /\ pout.err = "none"
  /\ Len(pout.val) = 2
  /\ pout.val[1] =
       [move |-> <<[x |-> <<3>>, y |-> <<3>>]>>, visits |-> <<100>>,
        winrate |-> <<[num |-> 5500, den |-> 10000]>>,
        prior |-> <<[num |-> 200, den |-> 10000]>>, lcb |-> None,
        order |-> <<0>>,
        pv |-> << <<[x |-> <<3>>, y |-> <<3>>], [x |-> <<2>>, y |-> <<2>>]>> >>]
  /\ pout.val[2] =
       [NoInfo EXCEPT !.move = <<[x |-> <<15>>, y |-> <<15>>]>>,
                      !.visits = <<50>>]

\* C20: sending while iterating does not deadlock.  There is no state in
\* which a caller that holds the suspended line sequence of its streaming
\* command is inside send_command waiting for the session lock, while the
\* reader holds the session lock and waits for that command's lock, which
\* the suspended sequence holds.
NoSendDeadlock ==
  \A t \in Callers :
    ~ /\ pc[t] \in {"enq", "wait_ready"}
      /\ op[t] = "send_command"
      /\ lock = "reader"
      /\ rpc = "lock2"
      /\ commands[active].owner = t
      /\ IsStreaming(commands[active].command)
      /\ commands[active].lock = "gen"
      /\ gen[active].st = "yielded"

\* C21: no Command's lines ever holds an empty string: a line that is empty
\* once the status marker and the surrounding whitespace are removed is never
\* appended, a bare "=" status line included.
NoEmptyBodyLine ==
  \A c \in DOMAIN commands :
    \A i \in 1..Len(commands[c].response) : commands[c].response[i] # <<>>

\* C22: when the reader processes, for a Command that is not yet ready, a
\* line that is empty after trimming (the empty read at end of stream
\* included), the Command becomes finished and the reader goes back to its
\* outer loop, without failing.
BlankFirstLineTerminates ==
  [][ (rpc = "lock2" /\ rpc' # "lock2"
          /\ ~commands[active].ready /\ line = <<>>)
        => (/\ commands'[active].finished
            /\ rpc' = "poll"
            /\ rerr' = "none") ]_vars

\* C23: whenever a command line has been written to the child's input stream,
\* the Command of that line is already in the ledger (the enqueue is not later
\* than the write).
EnqueueNoLaterThanWrite ==
  \A n \in 1..nsent : \E c \in DOMAIN commands : commands[c].sid = n

\* C24: once the reader has stopped on a malformed first line of the Command
\* a caller is waiting for in send, that caller is eventually released from
\* the wait with an error.
ProtocolViolationSurfaced ==
  (rerr = "RuntimeError" /\ pc[Main] = "wait_ready" /\ cur[Main] = active)
    ~> (pc[Main] # "wait_ready" /\ err[Main] # "none")

\* C25: a Command's finished flag becomes true only in the reader step that
\* processes, for that Command, a line that is empty after trimming; a wait
\* for completion is left, and a lazy sequence comes to its end, only for a
\* Command that is finished.  So as long as no blank line is read for a
\* streaming Command, neither of the two terminates.
CompletionNeedsTerminator ==
  [][ /\ \A c \in DOMAIN commands :
           (~commands[c].finished /\ commands'[c].finished)
             => (rpc = "lock2" /\ active = c /\ line = <<>>)
      /\ \A c \in DOMAIN commands' : (c \notin DOMAIN commands)
           => ~commands'[c].finished
      /\ \A t \in Callers :
           (pc[t] = "wait_finished" /\ pc'[t] # "wait_finished")
             => commands[cur[t]].finished
      /\ \A c \in DOMAIN gen :
           (gen[c].st # "done" /\ gen'[c].st = "done")
             => commands[c].finished ]_vars

\* C25 witness: a blocking send has returned for a finished Command, and a
\* streaming Command that nobody cancelled is neither finished nor exhausted
\* although lines of it have been consumed.
CompletionNeedsTerminatorWitness ==
  /\ \E c \in DOMAIN commands :
       /\ gen[c].st = "list"
       /\ commands[c].finished
       /\ Len(gen[c].seen) >= 2
  /\ \E c \in DOMAIN commands :
       /\ IsStreaming(commands[c].command)
       /\ c \notin stopped
       /\ ~commands[c].finished
       /\ gen[c].st = "yielded"
       /\ Len(gen[c].seen) = 2

\* C26: a call of stop_persistent whose write succeeds puts exactly one empty
\* line on the child's input stream and changes nothing else of the session:
\* no Command is created or enqueued, the ledger and every Command's lines,
\* ready, error and finished flags stay as they are, no response is handed
\* out for it, and the reader is not touched.  A call whose write fails puts
\* nothing on the stream.
StopPersistentFrame ==
  [][ (stopped' # stopped)
        => /\ commands' = commands
           /\ command_queue' = command_queue
           /\ gen' = gen
           /\ <<rpc, active, line, rerr, rd>>' = <<rpc, active, line, rerr, rd>>
           /\ <<lock, engine, nsent, out>>' = <<lock, engine, nsent, out>>
           /\ IF err'[Main] = "none"
              THEN stdin' = Append(stdin, NoLine)
              ELSE stdin' = stdin ]_vars

\* C26 witness: stop_persistent was called while its Command was unfinished
\* and held lines, the empty line is on the child's input stream and the
\* ledger still has that one Command.
StopPersistentFrameWitness ==
  /\ stopped = {1}
  /\ Len(commands) = 1
  /\ ~commands[1].finished
  /\ commands[1].response # <<>>
  /\ command_queue = <<>>
  /\ stdin = <<NoLine>>
  /\ err[Main] = "none"

\* C27: once a Command is ready, a non-empty line read for it is appended to
\* its lines as the child printed it, trimmed and nothing more: no status
\* marker is looked for or removed, the error and ready flags and finished
\* keep their values, and the reader goes on to the next line.
MarkerCheckFirstLineOnly ==
  [][ (rpc = "lock2" /\ rpc' # "lock2"
          /\ commands[active].ready /\ line # <<>>)
        => /\ commands'[active] =
                [commands[active] EXCEPT
                   !.response = Append(@, strip(out[rd].line))]
           /\ rerr' = "none"
           /\ rpc' = "read" ]_vars

\* C27 witness: a Command whose status line began with "?" holds a body line
\* that begins with "=", and is still marked as failed.
MarkerCheckWitness ==
  \E c \in DOMAIN commands :
    /\ commands[c].ready /\ commands[c].error
    /\ Len(commands[c].response) = 2
    /\ Head(commands[c].response[2]) = "="

\* C29: a Command that is finished is ready, and a Command that holds lines
\* is ready: no response completes, or collects a line, before its status
\* line has been classified.
FinishedImpliesReady ==
  \A c \in DOMAIN commands :
    /\ commands[c].finished => commands[c].ready
    /\ commands[c].response # <<>> => commands[c].ready

\* C29 witness: one Command is finished with lines, while the reader has
\* ended on the blank first line of the next, which is neither ready nor
\* finished.
FinishedImpliesReadyWitness ==
  /\ Len(commands) = 2
  /\ commands[1].finished /\ commands[1].ready
  /\ commands[1].response # <<>>
  /\ rerr = "IndexError"
  /\ ~commands[2].ready /\ ~commands[2].finished

\* C28: in src/engine.py, when the child prints the same response for a
\* blocking send_command and for a send_command_persistent, the list the
\* first returns and the sequence of the items the exhausted generator of
\* the second has yielded are equal, element for element; and send_command
\* returns only for a finished Command, with all of its lines.
CollectedEqualsStreamed ==
  /\ \A t \in Callers : pc[t] = "copy" => commands[cur[t]].finished
  /\ \A c \in DOMAIN commands :
       gen[c].st = "list" =>
         /\ commands[c].finished
         /\ gen[c].seen = commands[c].response
  /\ \A c, d \in DOMAIN commands :
       (/\ gen[c].st = "list"
        /\ gen[d].st = "done"
        /\ RawBlock(c, Len(out)) = RawBlock(d, Len(out)))
         => gen[c].seen = gen[d].seen

\* C28 witness: the child printed the same three lines for a blocking and
\* for a persistent call, the list was returned and the generator exhausted.
CollectedEqualsStreamedWitness ==
  \E c, d \in DOMAIN commands :
    /\ gen[c].st = "list"
    /\ gen[d].st = "done"
    /\ RawBlock(c, Len(out)) = RawBlock(d, Len(out))
    /\ Len(RawBlock(c, Len(out))) = 3
    /\ Len(gen[d].seen) = 3
====
